---- MODULE Spec2Model ----
(***************************************************************************)
(* etl::bitset (include/etl/private/bitset_new.h): the packed multi-word   *)
(* engine bitset_impl<TElement> and the facade bitset<Total_Bits,TElement> *)
(* that owns the word array.  Words are modelled as naturals below         *)
(* 2^Bits_Per_Element, arrays as functions over 0 .. Number_Of_Elements-1, *)
(* and every loop of the source as a recursive operator that performs the  *)
(* same reads and writes in the same order.                                *)
(***************************************************************************)
EXTENDS Integers, Sequences, FiniteSets

\* Largest Total_Bits explored (8-bit words: one word up to 8, two above).
MaxTotalBits == 10

\* Values handed to bitset(unsigned long long) lie in 0 .. 2^MaxValueBits - 1.
MaxValueBits == 4

\* Total_Bits of the one shape of more than 64 bits (nine 8-bit words) used for
\* the conversions to and from integers.
WideTotalBits == 66

\* Largest Total_Bits for which a word type is selected.
MaxSelectBits == 70

\* The largest Total_Bits whose storage descriptor is computed, with 8- and
\* 16-bit elements.
MaxDescriptorBits == 50

VARIABLES
  Total_Bits,        \* template parameter Total_Bits (fixed per instance)
  Bits_Per_Element,  \* integral_limits<element_type>::bits (fixed per instance)
  buffer,            \* element_type buffer[Number_Of_Elements]
  other,             \* the second operand's buffer after a binary operation / swap
  op,                \* the public operation that has just returned ("idle": none)
  args,              \* its arguments
  before,            \* buffer when the operation was called
  result,            \* its return value (queries)
  called             \* the engine routines the facade method entered

vars == <<Total_Bits, Bits_Per_Element, buffer, other, op, args, before, result, called>>

(***************************************************************************)
(* Machine arithmetic.                                                     *)
(***************************************************************************)
Pow2(n) == 2 ^ n

\* size_t: the model uses the narrowest size_t the C standard allows (16 bits).
npos == 65535

SizeMod == npos + 1

\* size_t arithmetic wraps.
SizeT(x) == x % SizeMod

RECURSIVE BitAnd(_, _)
BitAnd(a, b) ==
  IF a = 0 \/ b = 0 THEN 0
  ELSE ((a % 2) * (b % 2)) + 2 * BitAnd(a \div 2, b \div 2)

RECURSIVE BitOr(_, _)
BitOr(a, b) ==
  IF a = 0 THEN b
  ELSE IF b = 0 THEN a
  ELSE (IF (a % 2) + (b % 2) > 0 THEN 1 ELSE 0) + 2 * BitOr(a \div 2, b \div 2)

RECURSIVE BitXor(_, _)
BitXor(a, b) ==
  IF a = 0 THEN b
  ELSE IF b = 0 THEN a
  ELSE (((a % 2) + (b % 2)) % 2) + 2 * BitXor(a \div 2, b \div 2)

All_Set == Pow2(Bits_Per_Element) - 1

All_Clear == 0

\* element_type(x): conversion to the unsigned element type keeps the low bits.
Elem(x) == x % Pow2(Bits_Per_Element)

\* ~x on an element, converted back to element_type.
BitNot(x) == All_Set - x

\* element_type(x << n) and x >> n for n below the promoted width.
Shl(x, n) == Elem(x * Pow2(n))

Shr(x, n) == x \div Pow2(n)

\* etl::log2<Bits_Per_Element>::value
RECURSIVE Log2(_)
Log2(n) == IF n <= 1 THEN 0 ELSE 1 + Log2(n \div 2)

\* etl::count_bits
RECURSIVE count_bits(_)
count_bits(x) == IF x = 0 THEN 0 ELSE (x % 2) + count_bits(x \div 2)

Min(a, b) == IF a < b THEN a ELSE b

(***************************************************************************)
(* private_bitset::select_element_type<Total_Bits, Using_8Bit_Types,       *)
(* Using_64Bit_Types>: the default word type of bitset<Total_Bits>.        *)
(***************************************************************************)
\* Mutant: the table for a target with 8-bit and 64-bit types is used for
\* every target.
select_element_type_any_target(total_bits, using_8bit_types, using_64bit_types) ==
  IF total_bits = 0 THEN "void"
  ELSE IF total_bits <= 8 THEN "uint8_t"
  ELSE IF total_bits <= 16 THEN "uint16_t"
  ELSE IF total_bits <= 32 THEN "uint32_t"
  ELSE IF total_bits <= 64 THEN "uint64_t"
  ELSE "char"

\* The four specialisations, one for each pair of flags.
select_element_type(total_bits, using_8bit_types, using_64bit_types) ==
  IF using_8bit_types /\ using_64bit_types
  THEN IF total_bits = 0 THEN "void"
       ELSE IF total_bits <= 8 THEN "uint8_t"
       ELSE IF total_bits <= 16 THEN "uint16_t"
       ELSE IF total_bits <= 32 THEN "uint32_t"
       ELSE IF total_bits <= 64 THEN "uint64_t"
       ELSE "char"
  ELSE IF ~using_8bit_types /\ using_64bit_types
  THEN IF total_bits <= 0 THEN "void"
       ELSE IF total_bits <= 16 THEN "uint16_t"
       ELSE IF total_bits <= 32 THEN "uint32_t"
       ELSE IF total_bits <= 64 THEN "uint64_t"
       ELSE "char"
  ELSE IF using_8bit_types /\ ~using_64bit_types
  THEN IF total_bits <= 0 THEN "void"
       ELSE IF total_bits <= 8 THEN "uint8_t"
       ELSE IF total_bits <= 16 THEN "uint16_t"
       ELSE IF total_bits <= 32 THEN "uint32_t"
       ELSE "char"
  ELSE IF total_bits <= 0 THEN "void"
       ELSE IF total_bits <= 16 THEN "uint16_t"
       ELSE IF total_bits <= 32 THEN "uint32_t"
       ELSE "char"

\* CHAR_BIT of the target: char has 8 bits exactly when the target has 8-bit
\* types; a target without them is taken to have 16-bit chars.
Char_Bit(using_8bit_types) == IF using_8bit_types THEN 8 ELSE 16

\* integral_limits<make_unsigned<TElement>::type>::bits (0 for void).
element_bits(type, using_8bit_types) ==
  CASE type = "void"     -> 0
    [] type = "uint8_t"  -> 8
    [] type = "uint16_t" -> 16
    [] type = "uint32_t" -> 32
    [] type = "uint64_t" -> 64
    [] type = "char"     -> Char_Bit(using_8bit_types)

(***************************************************************************)
(* Storage descriptor (static members of bitset).                          *)
(***************************************************************************)
NumElems(tb, bpe) == IF tb % bpe = 0 THEN tb \div bpe ELSE tb \div bpe + 1

Number_Of_Elements == NumElems(Total_Bits, Bits_Per_Element)

Allocated_Bits == Number_Of_Elements * Bits_Per_Element

Top_Mask_Shift == (Bits_Per_Element - (Allocated_Bits - Total_Bits)) % Bits_Per_Element

\* Mutant: the shifted word is not complemented.
Top_Mask_not_complemented ==
  IF Top_Mask_Shift = 0 THEN All_Set ELSE Shl(All_Set, Top_Mask_Shift)

Top_Mask == IF Top_Mask_Shift = 0 THEN All_Set ELSE BitNot(Shl(All_Set, Top_Mask_Shift))

(***************************************************************************)
(* bitset_impl: point operations.                                          *)
(***************************************************************************)
\* Mutant: the last word is not counted.
RECURSIVE count_loop_short(_, _, _, _)
count_loop_short(pbuffer, n_elems, i, n) ==
  IF i < n_elems - 1
  THEN count_loop_short(pbuffer, n_elems, i + 1, n + count_bits(pbuffer[i]))
  ELSE n

RECURSIVE count_loop(_, _, _, _)
count_loop(pbuffer, n_elems, i, n) ==
  IF i < n_elems THEN count_loop(pbuffer, n_elems, i + 1, n + count_bits(pbuffer[i]))
  ELSE n

count(pbuffer, n_elems) == count_loop(pbuffer, n_elems, 0, 0)

\* index and mask of a position, as test/set/reset/flip compute them.
BitIndex(n_elems, position) ==
  IF n_elems = 1 THEN 0 ELSE Shr(position, Log2(Bits_Per_Element))

BitMask(n_elems, position) ==
  IF n_elems = 1 THEN Shl(1, position)
  ELSE Shl(1, BitAnd(position, Bits_Per_Element - 1))

test(pbuffer, n_elems, position) ==
  IF n_elems = 0 THEN FALSE
  ELSE BitAnd(pbuffer[BitIndex(n_elems, position)], BitMask(n_elems, position)) # 0

\* test as the build runs it: pbuffer[index] with index outside the array is
\* undefined behaviour, and either answer can come back.
test_outcomes(pbuffer, n_elems, position) ==
  IF n_elems = 0 THEN {FALSE}
  ELSE IF BitIndex(n_elems, position) \in DOMAIN pbuffer
       THEN {test(pbuffer, n_elems, position)}
       ELSE BOOLEAN

\* Mutant: the word index is always 0.
set_first_word(pbuffer, n_elems, position, value) ==
  IF n_elems = 0 THEN pbuffer
  ELSE LET bit == BitMask(n_elems, position)
       IN  IF value
           THEN [pbuffer EXCEPT ![0] = BitOr(@, bit)]
           ELSE [pbuffer EXCEPT ![0] = BitAnd(@, BitNot(bit))]

set(pbuffer, n_elems, position, value) ==
  IF n_elems = 0 THEN pbuffer
  ELSE LET index == BitIndex(n_elems, position)
           bit   == BitMask(n_elems, position)
       IN  IF value
           THEN [pbuffer EXCEPT ![index] = BitOr(@, bit)]
           ELSE [pbuffer EXCEPT ![index] = BitAnd(@, BitNot(bit))]

\* Mutant: the whole word is cleared instead of one bit of it.
reset_whole_word(pbuffer, n_elems, position) ==
  IF n_elems = 0 THEN pbuffer
  ELSE LET index == BitIndex(n_elems, position)
       IN  [pbuffer EXCEPT ![index] = All_Clear]

reset(pbuffer, n_elems, position) ==
  IF n_elems = 0 THEN pbuffer
  ELSE LET index == BitIndex(n_elems, position)
           bit   == BitMask(n_elems, position)
       IN  [pbuffer EXCEPT ![index] = BitAnd(@, BitNot(bit))]

flip_all(pbuffer, n_elems) == [i \in DOMAIN pbuffer |-> IF i < n_elems THEN BitNot(pbuffer[i]) ELSE pbuffer[i]]

\* Mutant: the position is not compared with total_bits.
flip_unbounded(pbuffer, n_elems, total_bits, position) ==
  IF n_elems = 0 THEN pbuffer
  ELSE LET index == BitIndex(n_elems, position)
           bit   == BitMask(n_elems, position)
       IN  [pbuffer EXCEPT ![index] = BitXor(@, bit)]

flip(pbuffer, n_elems, total_bits, position) ==
  IF position < total_bits
  THEN IF n_elems = 0 THEN pbuffer
       ELSE LET index == BitIndex(n_elems, position)
                bit   == BitMask(n_elems, position)
            IN  [pbuffer EXCEPT ![index] = BitXor(@, bit)]
  ELSE pbuffer

RECURSIVE all_loop(_, _, _)
all_loop(pbuffer, n_elems, i) ==
  IF i < n_elems - 1
  THEN IF pbuffer[i] # All_Set THEN FALSE ELSE all_loop(pbuffer, n_elems, i + 1)
  ELSE TRUE

\* Mutant: the last word is compared with All_Set, the top mask ignored.
all_unmasked(pbuffer, n_elems, top_mask) ==
  IF n_elems = 0 THEN TRUE
  ELSE IF ~all_loop(pbuffer, n_elems, 0) THEN FALSE
  ELSE IF pbuffer[n_elems - 1] # All_Set THEN FALSE
  ELSE TRUE

all(pbuffer, n_elems, top_mask) ==
  IF n_elems = 0 THEN TRUE
  ELSE IF ~all_loop(pbuffer, n_elems, 0) THEN FALSE
  ELSE IF pbuffer[n_elems - 1] # BitAnd(All_Set, top_mask) THEN FALSE
  ELSE TRUE

RECURSIVE none_loop(_, _, _)
none_loop(pbuffer, n_elems, i) ==
  IF i < n_elems
  THEN IF pbuffer[i] # 0 THEN FALSE ELSE none_loop(pbuffer, n_elems, i + 1)
  ELSE TRUE

none(pbuffer, n_elems) == none_loop(pbuffer, n_elems, 0)

(***************************************************************************)
(* bitset_impl: conversions from text and from an integer.                 *)
(***************************************************************************)
\* etl::strlen
strlen(text) == Len(text)

\* Mutant: the elements the text does not reach are not cleared.
from_string_clear_none(pbuffer, n_elems, element_index) == pbuffer

\* "Only reset elements we need to."
RECURSIVE from_string_clear(_, _, _)
from_string_clear(pbuffer, n_elems, element_index) ==
  IF element_index # n_elems
  THEN from_string_clear([pbuffer EXCEPT ![element_index] = All_Clear], n_elems, element_index + 1)
  ELSE pbuffer

\* Mutant: the characters are taken from the end of the text (position i - 1
\* gets the character i places before the end).
RECURSIVE from_string_build_from_end(_, _, _, _, _)
from_string_build_from_end(pbuffer, n_elems, i, text, k) ==
  IF i > 0
  THEN from_string_build_from_end(set(pbuffer, n_elems, i - 1, text[Len(text) - i + 1] = "1"),
                                  n_elems, i - 1, text, k + 1)
  ELSE pbuffer

\* "Build from the string": set(--i, *text++ == '1') while i > 0; k is the
\* (1-based) place text points at.
RECURSIVE from_string_build(_, _, _, _, _)
from_string_build(pbuffer, n_elems, i, text, k) ==
  IF i > 0
  THEN from_string_build(set(pbuffer, n_elems, i - 1, text[k] = "1"), n_elems, i - 1, text, k + 1)
  ELSE pbuffer

from_string(pbuffer, n_elems, total_bits, text) ==
  LET string_length == strlen(text)
      element_index == Min(SizeT(n_elems - 1), string_length \div Bits_Per_Element)
      cleared       == from_string_clear(pbuffer, n_elems, element_index)
  IN  from_string_build(cleared, n_elems, Min(total_bits, string_length), text, 1)

\* bitset_impl::set(pbuffer, n, total_bits, text) forwards to from_string.
set_text(pbuffer, n_elems, total_bits, text) == from_string(pbuffer, n_elems, total_bits, text)

\* "Clear the remaining elements."
RECURSIVE initialise_clear(_, _, _)
initialise_clear(pbuffer, n_elems, i) ==
  IF i # n_elems
  THEN initialise_clear([pbuffer EXCEPT ![i] = All_Clear], n_elems, i + 1)
  ELSE pbuffer

\* Mutant: the value is not shifted down after an element is stored.
RECURSIVE initialise_set_no_shift(_, _, _, _)
initialise_set_no_shift(pbuffer, n_elems, val, i) ==
  IF val # 0 /\ i # n_elems
  THEN initialise_set_no_shift([pbuffer EXCEPT ![i] = BitAnd(val, All_Set)], n_elems, val, i + 1)
  ELSE initialise_clear(pbuffer, n_elems, i)

\* "Set the non-zero elements."
RECURSIVE initialise_set(_, _, _, _)
initialise_set(pbuffer, n_elems, value, i) ==
  IF value # 0 /\ i # n_elems
  THEN initialise_set([pbuffer EXCEPT ![i] = BitAnd(value, All_Set)], n_elems,
                      Shr(value, Bits_Per_Element), i + 1)
  ELSE initialise_clear(pbuffer, n_elems, i)

\* unsigned long long has 64 bits.
initialise(pbuffer, n_elems, value) ==
  LET Shift == IF 64 <= Bits_Per_Element THEN 0 ELSE Bits_Per_Element
  IN  IF Shift = 0
      THEN [pbuffer EXCEPT ![0] = Elem(value)]
      ELSE initialise_set(pbuffer, n_elems, value, 0)

RECURSIVE copy_elements(_, _, _, _)
copy_elements(sb, db, i, cnt) ==
  IF cnt # 0
  THEN copy_elements(sb, [db EXCEPT ![i] = sb[i]], i + 1, cnt - 1)
  ELSE db

(***************************************************************************)
(* bitset_impl: scanning.                                                  *)
(***************************************************************************)
\* Mutant: the scan of an element is not bounded by total_bits.
RECURSIVE find_next_bits_unbounded(_, _, _, _, _, _)
find_next_bits_unbounded(value, total_bits, state, bit, mask, position) ==
  IF bit < Bits_Per_Element
  THEN IF (BitAnd(value, mask) # 0) = state
       THEN [found |-> TRUE, position |-> position]
       ELSE find_next_bits_unbounded(value, total_bits, state, bit + 1, Shl(mask, 1),
                                     SizeT(position + 1))
  ELSE [found |-> FALSE, position |-> position]

\* "For each bit in the element...": the position found, or where the scan
\* of this element stopped.
RECURSIVE find_next_bits(_, _, _, _, _, _)
find_next_bits(value, total_bits, state, bit, mask, position) ==
  IF bit < Bits_Per_Element /\ position < total_bits
  THEN IF (BitAnd(value, mask) # 0) = state
       THEN [found |-> TRUE, position |-> position]
       ELSE find_next_bits(value, total_bits, state, bit + 1, Shl(mask, 1), SizeT(position + 1))
  ELSE [found |-> FALSE, position |-> position]

\* "For each element in the bitset..."
RECURSIVE find_next_elements(_, _, _, _, _, _, _, _)
find_next_elements(pbuffer, n_elems, total_bits, state, index, bit, mask, position) ==
  IF index < n_elems
  THEN LET value == pbuffer[index]
       IN  IF (state /\ value # All_Clear) \/ (~state /\ value # All_Set)
           THEN LET r == find_next_bits(value, total_bits, state, bit, mask, position)
                IN  IF r.found THEN r.position
                    ELSE find_next_elements(pbuffer, n_elems, total_bits, state,
                                            index + 1, 0, 1, r.position)
           ELSE find_next_elements(pbuffer, n_elems, total_bits, state,
                                   index + 1, 0, 1,
                                   SizeT(position + (Bits_Per_Element - bit)))
  ELSE npos

\* "size_t bit = position;" (not reduced modulo Bits_Per_Element) and
\* "element_type mask = 1 << bit;" (an int shift, converted to element_type).
find_next(pbuffer, n_elems, total_bits, state, position) ==
  LET index == Shr(position, Log2(Bits_Per_Element))
      bit   == position
      mask  == Shl(1, bit)
  IN  find_next_elements(pbuffer, n_elems, total_bits, state, index, bit, mask, position)

find_first(pbuffer, n_elems, total_bits, state) ==
  find_next(pbuffer, n_elems, total_bits, state, 0)

(***************************************************************************)
(* bitset_impl: cross-word shifts.                                         *)
(***************************************************************************)
\* etl::copy_backward(first, last, d_last): *(--d_last) = *(--last).
RECURSIVE copy_backward(_, _, _, _)
copy_backward(pbuffer, first, last, d_last) ==
  IF first # last
  THEN copy_backward([pbuffer EXCEPT ![d_last - 1] = pbuffer[last - 1]], first, last - 1, d_last - 1)
  ELSE pbuffer

\* etl::copy(first, last, d_first): *d_first++ = *first++; returns the end
\* of the destination range.
RECURSIVE copy(_, _, _, _)
copy(pbuffer, first, last, d_first) ==
  IF first # last
  THEN copy([pbuffer EXCEPT ![d_first] = pbuffer[first]], first + 1, last, d_first + 1)
  ELSE [buf |-> pbuffer, out |-> d_first]

\* etl::fill_n(first, n, value)
RECURSIVE fill_n(_, _, _, _)
fill_n(pbuffer, first, n, value) ==
  IF n # 0
  THEN fill_n([pbuffer EXCEPT ![first] = value], first + 1, n - 1, value)
  ELSE pbuffer

\* Mutant: the bits carried in from the next lower word are not or-ed in.
RECURSIVE shl_shift_loop_drop_msb(_, _, _, _, _, _, _)
shl_shift_loop_drop_msb(pbuffer, src_index, dst_index, lsb_mask, msb_mask, lsb_shift, msb_shift) ==
  IF src_index >= 0
  THEN LET lsb == Shl(BitAnd(pbuffer[src_index], lsb_mask), lsb_shift)
           b2  == [pbuffer EXCEPT ![dst_index - 1] = lsb]
       IN  shl_shift_loop_drop_msb(b2, src_index - 1, dst_index - 1,
                                   lsb_mask, msb_mask, lsb_shift, msb_shift)
  ELSE [buf |-> pbuffer, dst_index |-> dst_index]

\* "Now do the shifting." (left)
RECURSIVE shl_shift_loop(_, _, _, _, _, _, _)
shl_shift_loop(pbuffer, src_index, dst_index, lsb_mask, msb_mask, lsb_shift, msb_shift) ==
  IF src_index >= 0
  THEN LET msb == Shr(BitAnd(pbuffer[src_index], msb_mask), msb_shift)
           b1  == [pbuffer EXCEPT ![dst_index] = BitOr(@, msb)]
           lsb == Shl(BitAnd(b1[src_index], lsb_mask), lsb_shift)
           b2  == [b1 EXCEPT ![dst_index - 1] = lsb]
       IN  shl_shift_loop(b2, src_index - 1, dst_index - 1, lsb_mask, msb_mask, lsb_shift, msb_shift)
  ELSE [buf |-> pbuffer, dst_index |-> dst_index]

\* "The other remaining bytes on the right."
RECURSIVE shl_clear_loop(_, _)
shl_clear_loop(pbuffer, dst_index) ==
  IF dst_index >= 0
  THEN shl_clear_loop([pbuffer EXCEPT ![dst_index] = 0], dst_index - 1)
  ELSE pbuffer

shift_left_equals(pbuffer, n_elems, total_bits, shift) ==
  IF shift % Bits_Per_Element = 0
  THEN LET element_shift == shift \div Bits_Per_Element
       IN  fill_n(copy_backward(pbuffer, 0, n_elems - element_shift, n_elems),
                  0, element_shift, All_Clear)
  ELSE LET split_position   == Bits_Per_Element - (shift % Bits_Per_Element)
           src_index        == n_elems - (shift \div Bits_Per_Element) - 1
           dst_index        == n_elems - 1
           lsb_shift        == Bits_Per_Element - split_position
           msb_shift        == split_position
           lsb_mask         == Elem(Shr(All_Set, Bits_Per_Element - split_position))
           msb_mask         == All_Set - lsb_mask
           lsb_shifted_mask == Shl(lsb_mask, lsb_shift)
           \* First lsb.
           lsb              == Shl(BitAnd(pbuffer[src_index], lsb_mask), lsb_shift)
           b0               == [pbuffer EXCEPT ![dst_index] = lsb]
           r                == shl_shift_loop(b0, src_index - 1, dst_index,
                                              lsb_mask, msb_mask, lsb_shift, msb_shift)
           \* Clear the remaining bits: first lsb.
           b1               == [r.buf EXCEPT ![r.dst_index] = BitAnd(@, lsb_shifted_mask)]
       IN  shl_clear_loop(b1, r.dst_index - 1)

\* Mutant: the low part is taken from the word being shifted instead of the
\* next higher word.
RECURSIVE shr_shift_loop_same_word(_, _, _, _, _, _, _, _)
shr_shift_loop_same_word(pbuffer, n_elems, src_index, dst_index, lsb_mask, msb_mask, lsb_shift, msb_shift) ==
  IF src_index < n_elems - 1
  THEN LET msb == Shr(BitAnd(pbuffer[src_index], msb_mask), msb_shift)
           lsb == Shl(BitAnd(pbuffer[src_index], lsb_mask), lsb_shift)
           b1  == [pbuffer EXCEPT ![dst_index] = BitOr(lsb, msb)]
       IN  shr_shift_loop_same_word(b1, n_elems, src_index + 1, dst_index + 1,
                                    lsb_mask, msb_mask, lsb_shift, msb_shift)
  ELSE [buf |-> pbuffer, src_index |-> src_index, dst_index |-> dst_index]

\* "Now do the shifting." (right)
RECURSIVE shr_shift_loop(_, _, _, _, _, _, _, _)
shr_shift_loop(pbuffer, n_elems, src_index, dst_index, lsb_mask, msb_mask, lsb_shift, msb_shift) ==
  IF src_index < n_elems - 1
  THEN LET msb == Shr(BitAnd(pbuffer[src_index], msb_mask), msb_shift)
           lsb == Shl(BitAnd(pbuffer[src_index + 1], lsb_mask), lsb_shift)
           b1  == [pbuffer EXCEPT ![dst_index] = BitOr(lsb, msb)]
       IN  shr_shift_loop(b1, n_elems, src_index + 1, dst_index + 1,
                          lsb_mask, msb_mask, lsb_shift, msb_shift)
  ELSE [buf |-> pbuffer, src_index |-> src_index, dst_index |-> dst_index]

\* "The other remaining bytes."
RECURSIVE shr_clear_loop(_, _, _)
shr_clear_loop(pbuffer, n_elems, dst_index) ==
  IF dst_index < n_elems
  THEN shr_clear_loop([pbuffer EXCEPT ![dst_index] = 0], n_elems, dst_index + 1)
  ELSE pbuffer

shift_right_equals(pbuffer, n_elems, total_bits, shift) ==
  IF shift % Bits_Per_Element = 0
  THEN LET element_shift == shift \div Bits_Per_Element
           c             == copy(pbuffer, element_shift, n_elems, 0)
       IN  fill_n(c.buf, c.out, element_shift, All_Clear)
  ELSE LET split_position   == shift % Bits_Per_Element
           src_index        == shift \div Bits_Per_Element
           dst_index        == 0
           lsb_shift        == Bits_Per_Element - split_position
           msb_shift        == split_position
           lsb_mask         == Elem(Shr(All_Set, Bits_Per_Element - split_position))
           msb_mask         == All_Set - lsb_mask
           msb_shifted_mask == Elem(Shr(msb_mask, msb_shift))
           r                == shr_shift_loop(pbuffer, n_elems, src_index, dst_index,
                                              lsb_mask, msb_mask, lsb_shift, msb_shift)
           \* Final msb.
           msb              == Shr(BitAnd(r.buf[r.src_index], msb_mask), msb_shift)
           b0               == [r.buf EXCEPT ![r.dst_index] = msb]
           \* Clear the remaining bits: first msb.
           b1               == [b0 EXCEPT ![r.dst_index] = BitAnd(@, msb_shifted_mask)]
       IN  shr_clear_loop(b1, n_elems, r.dst_index + 1)

(***************************************************************************)
(* bitset_impl: the element accesses of the cross-word shifts, in the      *)
(* order the code makes them.  A read takes a source element (an element  *)
(* a copy moves, or pbuffer[src_index]); a write stores a destination      *)
(* element; an update is pbuffer[dst_index] |= x or pbuffer[dst_index] &= x *)
(***************************************************************************)
Read(i) == [kind |-> "read", index |-> i]

Write(i) == [kind |-> "write", index |-> i]

Update(i) == [kind |-> "update", index |-> i]

RECURSIVE copy_backward_accesses(_, _, _)
copy_backward_accesses(first, last, d_last) ==
  IF first # last
  THEN <<Read(last - 1), Write(d_last - 1)>> \o copy_backward_accesses(first, last - 1, d_last - 1)
  ELSE <<>>

RECURSIVE copy_accesses(_, _, _)
copy_accesses(first, last, d_first) ==
  IF first # last
  THEN LET r == copy_accesses(first + 1, last, d_first + 1)
       IN  [acc |-> <<Read(first), Write(d_first)>> \o r.acc, out |-> r.out]
  ELSE [acc |-> <<>>, out |-> d_first]

RECURSIVE fill_n_accesses(_, _)
fill_n_accesses(first, n) ==
  IF n # 0 THEN <<Write(first)>> \o fill_n_accesses(first + 1, n - 1) ELSE <<>>

RECURSIVE shl_shift_loop_accesses(_, _)
shl_shift_loop_accesses(src_index, dst_index) ==
  IF src_index >= 0
  THEN LET r == shl_shift_loop_accesses(src_index - 1, dst_index - 1)
       IN  [acc       |-> <<Read(src_index), Update(dst_index),
                            Read(src_index), Write(dst_index - 1)>> \o r.acc,
            dst_index |-> r.dst_index]
  ELSE [acc |-> <<>>, dst_index |-> dst_index]

RECURSIVE shl_clear_loop_accesses(_)
shl_clear_loop_accesses(dst_index) ==
  IF dst_index >= 0
  THEN <<Write(dst_index)>> \o shl_clear_loop_accesses(dst_index - 1)
  ELSE <<>>

\* Mutant: the walk starts one element too high.
shift_left_equals_accesses_high(n_elems, shift) ==
  IF shift % Bits_Per_Element = 0
  THEN LET element_shift == shift \div Bits_Per_Element
       IN  copy_backward_accesses(0, n_elems - element_shift, n_elems)
             \o fill_n_accesses(0, element_shift)
  ELSE LET src_index == n_elems - (shift \div Bits_Per_Element)
           dst_index == n_elems - 1
           r         == shl_shift_loop_accesses(src_index - 1, dst_index)
       IN  <<Read(src_index), Write(dst_index)>> \o r.acc
             \o <<Update(r.dst_index)>> \o shl_clear_loop_accesses(r.dst_index - 1)

shift_left_equals_accesses(n_elems, shift) ==
  IF shift % Bits_Per_Element = 0
  THEN LET element_shift == shift \div Bits_Per_Element
       IN  copy_backward_accesses(0, n_elems - element_shift, n_elems)
             \o fill_n_accesses(0, element_shift)
  ELSE LET src_index == n_elems - (shift \div Bits_Per_Element) - 1
           dst_index == n_elems - 1
           r         == shl_shift_loop_accesses(src_index - 1, dst_index)
       IN  <<Read(src_index), Write(dst_index)>> \o r.acc
             \o <<Update(r.dst_index)>> \o shl_clear_loop_accesses(r.dst_index - 1)

RECURSIVE shr_shift_loop_accesses(_, _, _)
shr_shift_loop_accesses(n_elems, src_index, dst_index) ==
  IF src_index < n_elems - 1
  THEN LET r == shr_shift_loop_accesses(n_elems, src_index + 1, dst_index + 1)
       IN  [acc       |-> <<Read(src_index), Read(src_index + 1), Write(dst_index)>> \o r.acc,
            src_index |-> r.src_index,
            dst_index |-> r.dst_index]
  ELSE [acc |-> <<>>, src_index |-> src_index, dst_index |-> dst_index]

RECURSIVE shr_clear_loop_accesses(_, _)
shr_clear_loop_accesses(n_elems, dst_index) ==
  IF dst_index < n_elems
  THEN <<Write(dst_index)>> \o shr_clear_loop_accesses(n_elems, dst_index + 1)
  ELSE <<>>

shift_right_equals_accesses(n_elems, shift) ==
  IF shift % Bits_Per_Element = 0
  THEN LET element_shift == shift \div Bits_Per_Element
           c             == copy_accesses(element_shift, n_elems, 0)
       IN  c.acc \o fill_n_accesses(c.out, element_shift)
  ELSE LET src_index == shift \div Bits_Per_Element
           dst_index == 0
           r         == shr_shift_loop_accesses(n_elems, src_index, dst_index)
       IN  r.acc \o <<Read(r.src_index), Write(r.dst_index), Update(r.dst_index)>>
             \o shr_clear_loop_accesses(n_elems, r.dst_index + 1)

(***************************************************************************)
(* bitset_impl: logical combination.                                       *)
(***************************************************************************)
\* Mutant: the loop stops one element early.
and_equals_short(pbuffer, pbuffer2, n_elems) ==
  [i \in DOMAIN pbuffer |-> IF i < n_elems - 1 THEN BitAnd(pbuffer[i], pbuffer2[i]) ELSE pbuffer[i]]

and_equals(pbuffer, pbuffer2, n_elems) ==
  [i \in DOMAIN pbuffer |-> IF i < n_elems THEN BitAnd(pbuffer[i], pbuffer2[i]) ELSE pbuffer[i]]

or_equals(pbuffer, pbuffer2, n_elems) ==
  [i \in DOMAIN pbuffer |-> IF i < n_elems THEN BitOr(pbuffer[i], pbuffer2[i]) ELSE pbuffer[i]]

\* Mutant: the loop stops one element early.
xor_equals_short(pbuffer, pbuffer2, n_elems) ==
  [i \in DOMAIN pbuffer |-> IF i < n_elems - 1 THEN BitXor(pbuffer[i], pbuffer2[i]) ELSE pbuffer[i]]

xor_equals(pbuffer, pbuffer2, n_elems) ==
  [i \in DOMAIN pbuffer |-> IF i < n_elems THEN BitXor(pbuffer[i], pbuffer2[i]) ELSE pbuffer[i]]

(***************************************************************************)
(* bitset<Total_Bits, TElement>: the facade over its own word array.       *)
(***************************************************************************)
\* buffer(): the value-initialised array, of Number_Of_Elements elements (of
\* one element when Number_Of_Elements is 0).
ZeroBuffer ==
  [i \in 0 .. (IF Number_Of_Elements > 0 THEN Number_Of_Elements ELSE 1) - 1 |-> 0]

\* Mutant: the top mask is not applied.
clear_unused_bits_in_msb_unmasked(buf) == buf

clear_unused_bits_in_msb(buf) ==
  [buf EXCEPT ![Number_Of_Elements - 1] = BitAnd(@, Top_Mask)]

bitset_reset_all(buf) == fill_n(buf, 0, Number_Of_Elements, All_Clear)

bitset_default == bitset_reset_all(ZeroBuffer)

bitset_from_value(value) ==
  clear_unused_bits_in_msb(initialise(ZeroBuffer, Number_Of_Elements, value))

bitset_from_text(text) ==
  clear_unused_bits_in_msb(set_text(ZeroBuffer, Number_Of_Elements, Total_Bits, text))

bitset_copy(other_buffer) == copy_elements(other_buffer, ZeroBuffer, 0, Number_Of_Elements)

bitset_set_all(buf) ==
  clear_unused_bits_in_msb(fill_n(buf, 0, Number_Of_Elements, All_Set))

bitset_set(buf, position, value) ==
  clear_unused_bits_in_msb(set(buf, Number_Of_Elements, position, value))

\* set(const char*): the text is present (text != 0).
bitset_set_text(buf, text) == set_text(buf, Number_Of_Elements, Total_Bits, text)

\* Mutant: the elements are cleared before the text is compared with 0.
bitset_set_text_checked_late(buf, text_is_null, text) ==
  IF text_is_null
  THEN [buf |-> bitset_reset_all(buf), error |-> "bitset_nullptr"]
  ELSE [buf |-> set_text(buf, Number_Of_Elements, Total_Bits, text), error |-> "none"]

\* set(const char*): ETL_ASSERT_AND_RETURN_VALUE(text != 0, bitset_nullptr,
\* *this), then the engine's set.  The new buffer and the error reported.
bitset_set_text_checked(buf, text_is_null, text) ==
  IF text_is_null
  THEN [buf |-> buf, error |-> "bitset_nullptr"]
  ELSE [buf |-> set_text(buf, Number_Of_Elements, Total_Bits, text), error |-> "none"]

bitset_from_string(buf, text) == from_string(buf, Number_Of_Elements, Total_Bits, text)

bitset_reset(buf, position) == reset(buf, Number_Of_Elements, position)

bitset_test(buf, position) == test(buf, Number_Of_Elements, position)

bitset_count(buf) == count(buf, Number_Of_Elements)

bitset_all(buf) == all(buf, Number_Of_Elements, Top_Mask)

bitset_none(buf) == none(buf, Number_Of_Elements)

bitset_any(buf) == ~bitset_none(buf)

\* Mutant: the top mask is not applied after the words are complemented.
bitset_flip_all_unmasked(buf) == flip_all(buf, Number_Of_Elements)

bitset_flip_all(buf) == clear_unused_bits_in_msb(flip_all(buf, Number_Of_Elements))

bitset_flip(buf, position) == flip(buf, Number_Of_Elements, Total_Bits, position)

\* Mutant: the character for the highest position is left out.
to_string_short(buf, zero, one) ==
  [k \in 1 .. Total_Bits - 1 |-> IF test(buf, Number_Of_Elements, Total_Bits - 1 - k) THEN one ELSE zero]

\* Mutant: the characters are written least-significant bit first.
to_string_lsb_first(buf, zero, one) ==
  [k \in 1 .. Total_Bits |-> IF test(buf, Number_Of_Elements, k - 1) THEN one ELSE zero]

\* result[Total_Bits - i] = test(i - 1) ? one : zero, for i = Total_Bits .. 1.
to_string(buf, zero, one) ==
  [k \in 1 .. Total_Bits |-> IF bitset_test(buf, Total_Bits - k) THEN one ELSE zero]

\* to_string<TString>: size is result.size() after result.resize(Total_Bits,
\* 0); a string that did not reach Total_Bits characters is returned as it is
\* ("nul" stands for the character 0).
to_string_checked(buf, zero, one, size) ==
  IF size # Total_Bits
  THEN [text |-> [k \in 1 .. size |-> "nul"], error |-> "bitset_overflow"]
  ELSE [text |-> to_string(buf, zero, one), error |-> "none"]

bitset_find_first(buf, state) ==
  find_next(buf, Number_Of_Elements, Total_Bits, state, 0)

bitset_find_next(buf, state, position) ==
  find_next(buf, Number_Of_Elements, Total_Bits, state, position)

bitset_and_equals(buf, other_buffer) == and_equals(buf, other_buffer, Number_Of_Elements)

bitset_or_equals(buf, other_buffer) == or_equals(buf, other_buffer, Number_Of_Elements)

bitset_xor_equals(buf, other_buffer) == xor_equals(buf, other_buffer, Number_Of_Elements)

\* operator &, |, ^: temp(*this); temp op= other; return temp.
bitset_and(buf, other_buffer) == bitset_and_equals(bitset_copy(buf), other_buffer)

bitset_or(buf, other_buffer) == bitset_or_equals(bitset_copy(buf), other_buffer)

bitset_xor(buf, other_buffer) == bitset_xor_equals(bitset_copy(buf), other_buffer)

\* Mutant: the last element is not compared.
RECURSIVE equal_short(_, _, _, _)
equal_short(b1, b2, i, last) ==
  IF i < last - 1
  THEN IF b1[i] # b2[i] THEN FALSE ELSE equal_short(b1, b2, i + 1, last)
  ELSE TRUE

\* etl::equal(first1, last1, first2)
RECURSIVE equal(_, _, _, _)
equal(b1, b2, i, last) ==
  IF i # last
  THEN IF b1[i] # b2[i] THEN FALSE ELSE equal(b1, b2, i + 1, last)
  ELSE TRUE

\* operator ==, operator !=
bitset_equal(lhs, rhs) == equal(lhs, rhs, 0, Number_Of_Elements)

bitset_not_equal(lhs, rhs) == ~bitset_equal(lhs, rhs)

\* Mutant: the bound test is off by one (shift > Total_Bits).
shift_left_assign_off_by_one(buf, shift) ==
  IF shift > Total_Bits
  THEN [buf |-> bitset_reset_all(buf), called |-> {"reset"}]
  ELSE [buf    |-> clear_unused_bits_in_msb(
                     shift_left_equals(buf, Number_Of_Elements, Total_Bits, shift)),
        called |-> {"shift_left_equals", "clear_unused_bits_in_msb"}]

\* operator <<=: the new buffer and the routines entered.
shift_left_assign(buf, shift) ==
  IF shift >= Total_Bits
  THEN [buf |-> bitset_reset_all(buf), called |-> {"reset"}]
  ELSE [buf    |-> clear_unused_bits_in_msb(
                     shift_left_equals(buf, Number_Of_Elements, Total_Bits, shift)),
        called |-> {"shift_left_equals", "clear_unused_bits_in_msb"}]

\* operator >>=
shift_right_assign(buf, shift) ==
  IF shift >= Total_Bits
  THEN [buf |-> bitset_reset_all(buf), called |-> {"reset"}]
  ELSE [buf    |-> shift_right_equals(buf, Number_Of_Elements, Total_Bits, shift),
        called |-> {"shift_right_equals"}]

\* swap: element by element; both buffers afterwards.
RECURSIVE swap_loop(_, _, _)
swap_loop(b1, b2, i) ==
  IF i # Number_Of_Elements
  THEN LET temp == b1[i]
       IN  swap_loop([b1 EXCEPT ![i] = b2[i]], [b2 EXCEPT ![i] = temp], i + 1)
  ELSE [this |-> b1, other |-> b2]

bitset_swap(buf, other_buffer) == swap_loop(buf, other_buffer, 0)

\* size(), count(), all(), none() and any() of the primary template.
bitset_observe(buf) ==
  [declared |-> TRUE,
   size     |-> Total_Bits,
   count    |-> bitset_count(buf),
   all      |-> bitset_all(buf),
   none     |-> bitset_none(buf),
   any      |-> bitset_any(buf)]

\* The specialisation bitset<0U, void> declares npos and nothing else: it has
\* no size(), count(), all(), none() or any() to call.
bitset_void_observe == [declared |-> FALSE]

\* bit_reference: operator =(bool), flip(), operator bool.
\* Mutant: the proxy sets the bit whatever is assigned.
bit_reference_assign_true(buf, position, b) == bitset_set(buf, position, TRUE)

bit_reference_assign(buf, position, b) == bitset_set(buf, position, b)

bit_reference_flip(buf, position) == bitset_flip(buf, position)

bit_reference_bool(buf, position) == bitset_test(buf, position)

(***************************************************************************)
(* bitset_impl::value<T> and bitset::value<T>: the vector as an integer of *)
(* type T, given by its width sizeof(T) * CHAR_BIT.  The result is the     *)
(* value returned and the error handed to ETL_ASSERT_AND_RETURN_VALUE      *)
(* ("none" when no assertion failed).                                      *)
(***************************************************************************)
\* T(x) for an unsigned T of the given width.  Values of the model stay below
\* 2^30, so a type of 32 or 64 bits holds them unchanged.
ToT(x, width) == IF width > 30 THEN x ELSE x % Pow2(width)

\* for (i = sizeof(long long) / sizeof(element_type); i < number_of_elements; ++i)
\*   assert !(pbuffer[i]): TRUE when no element failed the assertion.
RECURSIVE value_overflow_loop(_, _, _)
value_overflow_loop(pbuffer, n_elems, i) ==
  IF i < n_elems
  THEN IF pbuffer[i] # 0 THEN FALSE ELSE value_overflow_loop(pbuffer, n_elems, i + 1)
  ELSE TRUE

\* Mutant: the shift does not advance from one element to the next.
RECURSIVE value_or_loop_no_shift(_, _, _, _, _, _)
value_or_loop_no_shift(pbuffer, n_elems, width, i, shift, v) ==
  IF i < n_elems
  THEN value_or_loop_no_shift(pbuffer, n_elems, width, i + 1, shift,
                              BitOr(v, ToT(pbuffer[i] * Pow2(shift), width)))
  ELSE v

\* v |= T(make_unsigned<T>::type(pbuffer[i]) << shift); shift is a uint_least8_t.
RECURSIVE value_or_loop(_, _, _, _, _, _)
value_or_loop(pbuffer, n_elems, width, i, shift, v) ==
  IF i < n_elems
  THEN value_or_loop(pbuffer, n_elems, width, i + 1, (shift + Bits_Per_Element) % 256,
                     BitOr(v, ToT(pbuffer[i] * Pow2(shift), width)))
  ELSE v

\* Mutant: the width of T is not compared with the allocated bits.
value_unchecked(pbuffer, n_elems, width) ==
  IF ~value_overflow_loop(pbuffer, n_elems, 64 \div Bits_Per_Element)
  THEN [v |-> 0, error |-> "bitset_overflow"]
  ELSE [v |-> value_or_loop(pbuffer, n_elems, width, 0, 0, 0), error |-> "none"]

value(pbuffer, n_elems, width) ==
  IF ~value_overflow_loop(pbuffer, n_elems, 64 \div Bits_Per_Element)
  THEN [v |-> 0, error |-> "bitset_overflow"]
  ELSE LET OK == width >= n_elems * Bits_Per_Element
       IN  IF ~OK
           THEN [v |-> 0, error |-> "bitset_type_too_small"]
           ELSE [v |-> value_or_loop(pbuffer, n_elems, width, 0, 0, 0), error |-> "none"]

\* bitset::value<T>(), to_ulong(), to_ullong(): T passed the static assertion
\* sizeof(T) * CHAR_BIT >= Number_Of_Elements * Bits_Per_Element.
bitset_value(buf, width) == value(buf, Number_Of_Elements, width)

(***************************************************************************)
(* Inputs.                                                                 *)
(***************************************************************************)
\* uint8_t words; Total_Bits 1 .. 8 is one word, above that two.
Shapes == {<<tb, 8>> : tb \in 1 .. MaxTotalBits}

Positions == 0 .. Total_Bits - 1

\* Shift amounts: below, at and above Total_Bits.
ShiftAmounts == 0 .. Total_Bits + 1

\* Values for bitset(unsigned long long).
ValueInputs == 0 .. Pow2(MaxValueBits) - 1

Chars == {"0", "1", "x"}

\* <<zero, one>> pairs for to_string: the default, a custom zero, a custom
\* one, and the two defaults exchanged.
CharPairs == {<<"0", "1">>, <<"x", "1">>, <<"0", "x">>, <<"1", "0">>}

\* a b a b ... of length len
Pattern(len, a, b) == [k \in 1 .. len |-> IF k % 2 = 1 THEN a ELSE b]

\* Texts shorter than, as long as and longer than Total_Bits.
OnesTexts == {Pattern(len, "1", "1") : len \in 0 .. Total_Bits + 1}

TextInputs ==
  OnesTexts
    \cup {Pattern(len, "1", "0") : len \in 0 .. Total_Bits + 1}
    \cup {Pattern(len, "x", "1") : len \in 0 .. Total_Bits + 1}

\* Second operands: bitsets of the same shape built from these values.
OtherValues == {0, 1365, 2730, 4095}

OtherInputs == {bitset_from_value(v) : v \in OtherValues}

\* Shapes for the conversions to and from integers: the shapes above and
\* one of more than 64 bits.
ConvShapes == Shapes \cup {<<WideTotalBits, 8>>}

\* Values for bitset(unsigned long long) in the conversions: every value of
\* Total_Bits + 1 bits (one bit more than the vector holds); for the wide
\* shape, every value of MaxTotalBits + 1 bits.
WideValues == 0 .. Pow2(Min(Total_Bits, MaxTotalBits) + 1) - 1

\* Texts for bitset(const char*) in the conversions: shorter than, as long as
\* and longer than Total_Bits; for the wide shape, shorter.
ConvTexts == {t \in TextInputs : Len(t) <= MaxTotalBits + 1}

\* sizeof(T) * CHAR_BIT of the integral types value<T> is asked for.
Widths == {8, 16, 32, 64}

NoArgs == [pos |-> 0, value |-> FALSE, shift |-> 0, text |-> <<>>, num |-> 0,
           zero |-> "0", one |-> "1", width |-> 0, null |-> FALSE, size |-> 0,
           using_8bit_types |-> TRUE, using_64bit_types |-> TRUE]

NoOther == <<>>

NoResult == "void"

(***************************************************************************)
(* Construction.                                                           *)
(***************************************************************************)
Constructed(name, a, buf, oth) ==
  /\ buffer = buf
  /\ other = oth
  /\ op = name
  /\ args = a
  /\ before = ZeroBuffer
  /\ result = NoResult
  /\ called = {}

Init ==
  /\ \E shape \in Shapes : Total_Bits = shape[1] /\ Bits_Per_Element = shape[2]
  /\ \/ Constructed("bitset()", NoArgs, bitset_default, NoOther)
     \/ \E v \in ValueInputs :
          Constructed("bitset(value)", [NoArgs EXCEPT !.num = v], bitset_from_value(v), NoOther)
     \/ \E t \in TextInputs :
          Constructed("bitset(text)", [NoArgs EXCEPT !.text = t], bitset_from_text(t), NoOther)
     \/ \E o \in OtherInputs :
          Constructed("bitset(copy)", NoArgs, bitset_copy(o), o)

(***************************************************************************)
(* Public operations.  A call is taken when the previous one has returned  *)
(* (op = "idle"); Return hands control back to the caller.                 *)
(***************************************************************************)
Idle == op = "idle"

Mutate(name, a, buf, oth, cl) ==
  /\ op' = name
  /\ args' = a
  /\ before' = buffer
  /\ buffer' = buf
  /\ other' = oth
  /\ result' = NoResult
  /\ called' = cl
  /\ UNCHANGED <<Total_Bits, Bits_Per_Element>>

Query(name, a, res, cl) ==
  /\ op' = name
  /\ args' = a
  /\ before' = buffer
  /\ result' = res
  /\ called' = cl
  /\ UNCHANGED <<Total_Bits, Bits_Per_Element, buffer, other>>

SetAll == Idle /\ Mutate("set()", NoArgs, bitset_set_all(buffer), NoOther, {})

SetBit ==
  Idle /\ \E p \in Positions, v \in BOOLEAN :
    Mutate("set(pos,value)", [NoArgs EXCEPT !.pos = p, !.value = v],
           bitset_set(buffer, p, v), NoOther, {})

SetText ==
  Idle /\ \E t \in OnesTexts :
    Mutate("set(text)", [NoArgs EXCEPT !.text = t], bitset_set_text(buffer, t), NoOther, {})

FromString ==
  Idle /\ \E t \in TextInputs :
    Mutate("from_string", [NoArgs EXCEPT !.text = t], bitset_from_string(buffer, t), NoOther, {})

ResetAll == Idle /\ Mutate("reset()", NoArgs, bitset_reset_all(buffer), NoOther, {})

ResetBit ==
  Idle /\ \E p \in Positions :
    Mutate("reset(pos)", [NoArgs EXCEPT !.pos = p], bitset_reset(buffer, p), NoOther, {})

FlipAll == Idle /\ Mutate("flip()", NoArgs, bitset_flip_all(buffer), NoOther, {})

\* flip(pos) bounds the position itself, so positions past the end are tried.
FlipBit ==
  Idle /\ \E p \in 0 .. Total_Bits + 1 :
    Mutate("flip(pos)", [NoArgs EXCEPT !.pos = p], bitset_flip(buffer, p), NoOther, {})

ShiftLeft ==
  Idle /\ \E k \in ShiftAmounts :
    LET r == shift_left_assign(buffer, k)
    IN  Mutate("<<=", [NoArgs EXCEPT !.shift = k], r.buf, NoOther, r.called)

ShiftRight ==
  Idle /\ \E k \in ShiftAmounts :
    LET r == shift_right_assign(buffer, k)
    IN  Mutate(">>=", [NoArgs EXCEPT !.shift = k], r.buf, NoOther, r.called)

\* a &= b, a |= b, a ^= b: b was built from args.num; other is b afterwards.
AndEquals ==
  Idle /\ \E v \in OtherValues :
    LET o == bitset_from_value(v)
    IN  Mutate("&=", [NoArgs EXCEPT !.num = v], bitset_and_equals(buffer, o), o, {})

OrEquals ==
  Idle /\ \E v \in OtherValues :
    LET o == bitset_from_value(v)
    IN  Mutate("|=", [NoArgs EXCEPT !.num = v], bitset_or_equals(buffer, o), o, {})

XorEquals ==
  Idle /\ \E v \in OtherValues :
    LET o == bitset_from_value(v)
    IN  Mutate("^=", [NoArgs EXCEPT !.num = v], bitset_xor_equals(buffer, o), o, {})

Swap ==
  Idle /\ \E o \in OtherInputs :
    LET r == bitset_swap(buffer, o)
    IN  Mutate("swap", NoArgs, r.this, r.other, {})

ProxyAssign ==
  Idle /\ \E p \in Positions, b \in BOOLEAN :
    Mutate("[pos]=b", [NoArgs EXCEPT !.pos = p, !.value = b],
           bit_reference_assign(buffer, p, b), NoOther, {})

ProxyFlip ==
  Idle /\ \E p \in Positions :
    Mutate("[pos].flip()", [NoArgs EXCEPT !.pos = p],
           bit_reference_flip(buffer, p), NoOther, {})

FindFirst ==
  Idle /\ \E st \in BOOLEAN :
    Query("find_first", [NoArgs EXCEPT !.value = st], bitset_find_first(buffer, st), {"find_next"})

FindNext ==
  Idle /\ \E st \in BOOLEAN, p \in Positions :
    Query("find_next", [NoArgs EXCEPT !.value = st, !.pos = p],
          bitset_find_next(buffer, st, p), {"find_next"})

ToString ==
  Idle /\ \E zo \in CharPairs :
    Query("to_string", [NoArgs EXCEPT !.zero = zo[1], !.one = zo[2]],
          to_string(buffer, zo[1], zo[2]), {})

\* dst.from_string(this->to_string(zero, one)) on a second bitset dst of the
\* same shape, built from an integer beforehand.
ExportImport ==
  Idle /\ \E v \in OtherValues, zo \in CharPairs :
    LET text == to_string(buffer, zo[1], zo[2])
    IN  /\ op' = "export_import"
        /\ args' = [NoArgs EXCEPT !.num = v, !.zero = zo[1], !.one = zo[2], !.text = text]
        /\ before' = buffer
        /\ other' = bitset_from_string(bitset_from_value(v), text)
        /\ result' = NoResult
        /\ called' = {}
        /\ UNCHANGED <<Total_Bits, Bits_Per_Element, buffer>>

\* Right-hand sides for operator == and !=: a copy of this vector, this
\* vector rebuilt from its text, this vector flipped twice, this vector with
\* its highest bit flipped, and the vectors built from integers.
CompareInputs(buf) ==
  {bitset_copy(buf),
   bitset_from_text(to_string(buf, "0", "1")),
   bitset_flip_all(bitset_flip_all(bitset_copy(buf))),
   bitset_flip(bitset_copy(buf), Total_Bits - 1)} \cup OtherInputs

\* lhs == rhs and lhs != rhs with this vector as lhs.
Equals ==
  Idle /\ \E o \in CompareInputs(buffer) :
    /\ op' = "=="
    /\ args' = NoArgs
    /\ before' = buffer
    /\ other' = o
    /\ result' = [eq |-> bitset_equal(buffer, o), ne |-> bitset_not_equal(buffer, o)]
    /\ called' = {"equal"}
    /\ UNCHANGED <<Total_Bits, Bits_Per_Element, buffer>>

Return ==
  /\ op # "idle"
  /\ op' = "idle"
  /\ args' = NoArgs
  /\ before' = buffer
  /\ other' = NoOther
  /\ result' = NoResult
  /\ called' = {}
  /\ UNCHANGED <<Total_Bits, Bits_Per_Element, buffer>>

Next ==
  \/ SetAll \/ SetBit \/ SetText \/ FromString
  \/ ResetAll \/ ResetBit \/ FlipAll \/ FlipBit
  \/ ShiftLeft \/ ShiftRight
  \/ AndEquals \/ OrEquals \/ XorEquals \/ Swap
  \/ ProxyAssign \/ ProxyFlip
  \/ FindFirst \/ FindNext \/ ToString \/ ExportImport \/ Equals
  \/ Return

Spec == Init /\ [][Next]_vars

(***************************************************************************)
(* The conversions to and from integers on their own: a vector is default- *)
(* constructed, then assigned a vector built from an integer or from a    *)
(* text or filled with set(), and then read back with value<T>.            *)
(***************************************************************************)
InitValue ==
  /\ \E shape \in ConvShapes : Total_Bits = shape[1] /\ Bits_Per_Element = shape[2]
  /\ Constructed("bitset()", NoArgs, bitset_default, NoOther)

Fresh == op = "bitset()"

Built == op \in {"bitset(value)", "bitset(text)", "set()"}

ConstructValue ==
  Fresh /\ \E v \in WideValues :
    Mutate("bitset(value)", [NoArgs EXCEPT !.num = v], bitset_from_value(v), NoOther,
           {"initialise", "clear_unused_bits_in_msb"})

ConstructText ==
  Fresh /\ \E t \in ConvTexts :
    Mutate("bitset(text)", [NoArgs EXCEPT !.text = t], bitset_from_text(t), NoOther,
           {"set", "clear_unused_bits_in_msb"})

\* set() on the fresh vector: every bit of every word is set.
FillAll ==
  Fresh /\ Mutate("set()", NoArgs, bitset_set_all(buffer), NoOther,
                  {"fill_n", "clear_unused_bits_in_msb"})

\* The engine's value<T> is called for every width; bitset::value<T> compiles
\* for the widths that hold the allocated bits and forwards to it.
ToValue ==
  Built /\ \E w \in Widths :
    Query("value<T>", [args EXCEPT !.width = w],
          IF w >= Allocated_Bits THEN bitset_value(buffer, w)
          ELSE value(buffer, Number_Of_Elements, w),
          called \cup {"value"})

NextValue == ConstructValue \/ ConstructText \/ FillAll \/ ToValue

ValueSpec == InitValue /\ [][NextValue]_vars

(***************************************************************************)
(* The logical combinators on their own: a vector is constructed from an   *)
(* integer (every content of every shape), combined with two others by the *)
(* operators &, | and ^, and updated by &=, |= and ^=.                     *)
(***************************************************************************)
\* Values for bitset(unsigned long long): one for each content of the vector.
ShapeValues == 0 .. Pow2(Total_Bits) - 1

InitFromValue ==
  /\ \E shape \in Shapes : Total_Bits = shape[1] /\ Bits_Per_Element = shape[2]
  /\ \E v \in ShapeValues :
       Constructed("bitset(value)", [NoArgs EXCEPT !.num = v], bitset_from_value(v), NoOther)

\* a (this vector, built from an integer) combined with b and c, built from
\* integers: other is b, args.num the value c was built from, and result the
\* vectors the operators &, | and ^ returned.
and_combinations(a, b, c) ==
  [ab   |-> bitset_and(a, b),
   ba   |-> bitset_and(b, a),
   ab_c |-> bitset_and(bitset_and(a, b), c),
   a_bc |-> bitset_and(a, bitset_and(b, c))]

or_combinations(a, b, c) ==
  [ab   |-> bitset_or(a, b),
   ba   |-> bitset_or(b, a),
   ab_c |-> bitset_or(bitset_or(a, b), c),
   a_bc |-> bitset_or(a, bitset_or(b, c))]

xor_combinations(a, b, c) ==
  [ab   |-> bitset_xor(a, b),
   ba   |-> bitset_xor(b, a),
   ab_c |-> bitset_xor(bitset_xor(a, b), c),
   a_bc |-> bitset_xor(a, bitset_xor(b, c))]

Combine ==
  op = "bitset(value)" /\ \E vb, vc \in OtherValues :
    LET a == buffer
        b == bitset_from_value(vb)
        c == bitset_from_value(vc)
    IN  /\ op' = "combine"
        /\ args' = [NoArgs EXCEPT !.num = vc]
        /\ before' = buffer
        /\ other' = b
        /\ result' = [and      |-> and_combinations(a, b, c),
                      or       |-> or_combinations(a, b, c),
                      xor      |-> xor_combinations(a, b, c),
                      xor_aa   |-> bitset_xor(a, a),
                      and_ones |-> bitset_and(a, bitset_set_all(bitset_default))]
        /\ called' = {"and_equals", "or_equals", "xor_equals"}
        /\ UNCHANGED <<Total_Bits, Bits_Per_Element, buffer>>

NextAlgebra == Combine \/ AndEquals \/ OrEquals \/ XorEquals \/ Return

AlgebraSpec == InitFromValue /\ [][NextAlgebra]_vars

(***************************************************************************)
(* The text conversions on their own: a vector constructed from an integer *)
(* (every content of every shape) imports texts and is exported as text.   *)
(***************************************************************************)
NextText == FromString \/ ToString \/ Return

TextSpec == InitFromValue /\ [][NextText]_vars

(***************************************************************************)
(* The point operations on their own: a vector constructed from an integer *)
(* (every content of every shape) has single positions set, reset and      *)
(* flipped.                                                                *)
(***************************************************************************)
\* Positions handed to test: the positions of the vector, its padding
\* positions and the positions of one further word.
TestPositions == 0 .. Allocated_Bits + Bits_Per_Element - 1

\* test(pos): the answer and the index of the word that was read.
Test ==
  Idle /\ \E p \in TestPositions :
    \E r \in test_outcomes(buffer, Number_Of_Elements, p) :
      Query("test", [NoArgs EXCEPT !.pos = p],
            [v |-> r, index |-> BitIndex(Number_Of_Elements, p)], {"test"})

NextPoint == SetBit \/ ResetBit \/ FlipBit \/ Test \/ Return

PointSpec == InitFromValue /\ [][NextPoint]_vars

(***************************************************************************)
(* The operations that can report an error (ETL_ASSERT_AND_RETURN_VALUE in *)
(* a build where the assertion returns), on every content of every shape.  *)
(***************************************************************************)
\* Arguments of set(const char*): the null pointer and the texts.
TextPointers ==
  {[null |-> TRUE, text |-> <<>>]} \cup {[null |-> FALSE, text |-> t] : t \in TextInputs}

SetTextChecked ==
  Idle /\ \E ptr \in TextPointers :
    LET r == bitset_set_text_checked(buffer, ptr.null, ptr.text)
    IN  /\ op' = "set(const char*)"
        /\ args' = [NoArgs EXCEPT !.null = ptr.null, !.text = ptr.text]
        /\ before' = buffer
        /\ buffer' = r.buf
        /\ other' = NoOther
        /\ result' = [error |-> r.error]
        /\ called' = IF ptr.null THEN {} ELSE {"set"}
        /\ UNCHANGED <<Total_Bits, Bits_Per_Element>>

\* to_string into a string type that holds Total_Bits characters and into
\* one that holds one character less.
ToStringChecked ==
  Idle /\ \E size \in {Total_Bits - 1, Total_Bits} :
    Query("to_string<TString>", [NoArgs EXCEPT !.size = size],
          to_string_checked(buffer, "0", "1", size), {})

NextError == SetTextChecked \/ ToStringChecked \/ ToValue \/ Return

ErrorSpec == InitFromValue /\ [][NextError]_vars

(***************************************************************************)
(* The queries size(), count(), all(), none() and any() on their own, on   *)
(* every content of every shape and on the vectors of no bits: bitset<0>,  *)
(* whose word type is void (Bits_Per_Element 0 here), and bitset<0,uint8_t>*)
(* of the primary template.                                                *)
(***************************************************************************)
VoidElement == Bits_Per_Element = 0

InitObserve ==
  \/ InitFromValue
  \/ /\ Total_Bits = 0 /\ Bits_Per_Element = 8
     /\ Constructed("bitset()", NoArgs, bitset_default, NoOther)
  \/ /\ Total_Bits = 0 /\ Bits_Per_Element = 0
     /\ buffer = <<>> /\ other = NoOther /\ before = <<>>
     /\ op = "bitset()" /\ args = NoArgs /\ result = NoResult /\ called = {}

Observe ==
  /\ op # "observe"
  /\ op' = "observe"
  /\ args' = NoArgs
  /\ before' = buffer
  /\ result' = IF VoidElement THEN bitset_void_observe ELSE bitset_observe(buffer)
  /\ called' = IF VoidElement THEN {} ELSE {"count", "all", "none"}
  /\ UNCHANGED <<Total_Bits, Bits_Per_Element, buffer, other>>

NextObserve == Observe

ObserveSpec == InitObserve /\ [][NextObserve]_vars

(***************************************************************************)
(* The selection of the word type on its own: bitset<Total_Bits> is named  *)
(* on a target with or without 8-bit and 64-bit types, and its default     *)
(* word type is selected.                                                  *)
(***************************************************************************)
InitSelect ==
  /\ Total_Bits \in 0 .. MaxSelectBits
  /\ Bits_Per_Element = 0
  /\ \E u8, u64 \in BOOLEAN :
       args = [NoArgs EXCEPT !.using_8bit_types = u8, !.using_64bit_types = u64]
  /\ buffer = <<>> /\ other = NoOther /\ before = <<>>
  /\ op = "bitset<Total_Bits>" /\ result = NoResult /\ called = {}

SelectElementType ==
  /\ op = "bitset<Total_Bits>"
  /\ LET type == select_element_type(Total_Bits, args.using_8bit_types, args.using_64bit_types)
     IN  /\ result' = [type |-> type]
         /\ Bits_Per_Element' = element_bits(type, args.using_8bit_types)
  /\ op' = "select_element_type"
  /\ UNCHANGED <<Total_Bits, buffer, other, before, args, called>>

NextSelect == SelectElementType

SelectSpec == InitSelect /\ [][NextSelect]_vars

(***************************************************************************)
(* The write-indexing proxy on its own.  bit_reference holds a pointer to  *)
(* bitset<Total_Bits>, the vector with the default word type, so the       *)
(* shapes are the ones select_element_type gives on a target with 8-bit    *)
(* and 64-bit types: one word up to 64 bits, 8-bit words above.            *)
(***************************************************************************)
DefaultShapes ==
  {<<tb, element_bits(select_element_type(tb, TRUE, TRUE), TRUE)>> :
     tb \in (1 .. MaxTotalBits) \cup {WideTotalBits}}

\* The vectors the proxy is applied to: every content of the shapes of up to
\* MaxTotalBits bits; for the wide shape the vectors built from integers,
\* their complements and the vector set() fills.
Contents ==
  IF Total_Bits <= MaxTotalBits
  THEN {bitset_from_value(v) : v \in ShapeValues}
  ELSE OtherInputs \cup {bitset_flip_all(o) : o \in OtherInputs}
         \cup {bitset_set_all(bitset_default)}

\* A vector of one of the shapes whose constructor has returned.
InitIdle(shapes) ==
  /\ \E shape \in shapes : Total_Bits = shape[1] /\ Bits_Per_Element = shape[2]
  /\ \E b \in Contents : buffer = b /\ before = b
  /\ op = "idle" /\ args = NoArgs /\ other = NoOther /\ result = NoResult /\ called = {}

InitProxy == InitIdle(DefaultShapes)

\* bool(v[pos])
ProxyBool ==
  Idle /\ \E p \in Positions :
    Query("bool([pos])", [NoArgs EXCEPT !.pos = p], bit_reference_bool(buffer, p), {})

NextProxy == ProxyAssign \/ ProxyFlip \/ ProxyBool

ProxySpec == InitProxy /\ [][NextProxy]_vars

(***************************************************************************)
(* The scan loop of a caller, on every content of every shape:             *)
(*   p = find_first(state);                                                *)
(*   while (p != npos) { visit p; p = find_next(state, p + 1); }           *)
(* args.value is state, args.pos is p and result the positions visited.    *)
(***************************************************************************)
ScanStart ==
  /\ op = "bitset(value)"
  /\ \E st \in BOOLEAN :
       args' = [NoArgs EXCEPT !.value = st, !.pos = bitset_find_first(buffer, st)]
  /\ op' = "scan"
  /\ before' = buffer
  /\ result' = <<>>
  /\ called' = {"find_first"}
  /\ UNCHANGED <<Total_Bits, Bits_Per_Element, buffer, other>>

ScanVisit ==
  /\ op = "scan"
  /\ args.pos # npos
  /\ result' = Append(result, args.pos)
  /\ args' = [args EXCEPT !.pos = bitset_find_next(buffer, args.value, SizeT(args.pos + 1))]
  /\ called' = called \cup {"find_next"}
  /\ UNCHANGED <<Total_Bits, Bits_Per_Element, buffer, other, op, before>>

ScanEnd ==
  /\ op = "scan"
  /\ args.pos = npos
  /\ op' = "scan_done"
  /\ UNCHANGED <<Total_Bits, Bits_Per_Element, buffer, other, args, before, result, called>>

NextScan == ScanStart \/ ScanVisit \/ ScanEnd

ScanSpec == InitFromValue /\ [][NextScan]_vars

(***************************************************************************)
(* The shifts by less than Total_Bits on their own, with the element       *)
(* accesses of the engine as the result: on every content of the shapes of *)
(* one and two 8-bit words and on a 66-bit vector of nine 8-bit words.     *)
(***************************************************************************)
InitShift == InitIdle(ConvShapes)

ShiftLeftAccesses ==
  Idle /\ \E k \in 0 .. Total_Bits - 1 :
    /\ op' = "<<= accesses"
    /\ args' = [NoArgs EXCEPT !.shift = k]
    /\ before' = buffer
    /\ buffer' = shift_left_assign(buffer, k).buf
    /\ result' = shift_left_equals_accesses(Number_Of_Elements, k)
    /\ called' = shift_left_assign(buffer, k).called
    /\ UNCHANGED <<Total_Bits, Bits_Per_Element, other>>

ShiftRightAccesses ==
  Idle /\ \E k \in 0 .. Total_Bits - 1 :
    /\ op' = ">>= accesses"
    /\ args' = [NoArgs EXCEPT !.shift = k]
    /\ before' = buffer
    /\ buffer' = shift_right_assign(buffer, k).buf
    /\ result' = shift_right_equals_accesses(Number_Of_Elements, k)
    /\ called' = shift_right_assign(buffer, k).called
    /\ UNCHANGED <<Total_Bits, Bits_Per_Element, other>>

NextShift == ShiftLeftAccesses \/ ShiftRightAccesses

ShiftSpec == InitShift /\ [][NextShift]_vars

(***************************************************************************)
(* The static members of every bitset<Total_Bits, TElement> of 1 ..        *)
(* MaxDescriptorBits bits with 8- and 16-bit elements.                     *)
(***************************************************************************)
DescriptorShapes == {<<tb, w>> : tb \in 1 .. MaxDescriptorBits, w \in {8, 16}}

InitDescriptor ==
  /\ \E shape \in DescriptorShapes : Total_Bits = shape[1] /\ Bits_Per_Element = shape[2]
  /\ buffer = bitset_default /\ before = bitset_default
  /\ op = "bitset()" /\ args = NoArgs /\ other = NoOther /\ result = NoResult /\ called = {}

Describe ==
  /\ op = "bitset()"
  /\ op' = "descriptor"
  /\ result' = [Number_Of_Elements |-> Number_Of_Elements,
                Allocated_Bits     |-> Allocated_Bits,
                Top_Mask_Shift     |-> Top_Mask_Shift,
                Top_Mask           |-> Top_Mask]
  /\ UNCHANGED <<Total_Bits, Bits_Per_Element, buffer, before, args, other, called>>

NextDescriptor == Describe

DescriptorSpec == InitDescriptor /\ [][NextDescriptor]_vars

(***************************************************************************)
(* Reference notions the properties are stated with.                       *)
(***************************************************************************)
\* Bit p of the raw word array.
RawBit(buf, p) == (buf[p \div Bits_Per_Element] \div Pow2(p % Bits_Per_Element)) % 2 = 1

PaddingPositions == Total_Bits .. Allocated_Bits - 1

PaddingZero(buf) == \A p \in PaddingPositions : ~RawBit(buf, p)

HasPadding == Total_Bits % Bits_Per_Element # 0

MultiWord == Number_Of_Elements > 1

RECURSIVE SumPow2(_)
SumPow2(S) ==
  IF S = {} THEN 0
  ELSE LET p == CHOOSE x \in S : TRUE IN Pow2(p) + SumPow2(S \ {p})

SetPositions(buf) == {p \in Positions : bitset_test(buf, p)}

\* The vector read as a Total_Bits-wide unsigned integer.
AsInteger(buf) == SumPow2(SetPositions(buf))

\* The lowest position in from .. Total_Bits - 1 whose bit equals state, or npos.
LowestMatch(buf, state, from) ==
  LET S == {p \in from .. Total_Bits - 1 : bitset_test(buf, p) = state}
  IN  IF S = {} THEN npos ELSE CHOOSE p \in S : \A q \in S : p <= q

(***************************************************************************)
(* Properties.                                                             *)
(***************************************************************************)

\* C1 (padding-zero invariant I1): after every constructor and after every
\* public mutating operation with positions below Total_Bits, every bit of
\* the last word at a position >= Total_Bits is 0, in this bitset and in the
\* second operand of a binary operation or swap.
C1_PaddingZero ==
  /\ PaddingZero(buffer)
  /\ other # NoOther => PaddingZero(other)

\* C1 witness: a multi-word bitset with padding has just imported a text of
\* more than Total_Bits "1" characters through from_string, which applies no
\* top mask.
C1_Witness ==
  /\ op = "from_string"
  /\ MultiWord /\ HasPadding
  /\ Len(args.text) > Total_Bits
  /\ \A k \in 1 .. Len(args.text) : args.text[k] = "1"
  /\ bitset_none(before)

\* C2 (left shift): after v <<= k with 0 <= k < Total_Bits the vector read as
\* an integer is (old value * 2^k) mod 2^Total_Bits: bit p is old bit p - k
\* for p >= k and 0 for p < k.
C2_ShiftLeft ==
  (op = "<<=" /\ args.shift < Total_Bits) =>
    /\ AsInteger(buffer) = (AsInteger(before) * Pow2(args.shift)) % Pow2(Total_Bits)
    /\ \A p \in Positions :
         bitset_test(buffer, p) = (p >= args.shift /\ bitset_test(before, p - args.shift))

\* C2 witness: an unaligned shift by more than a word moved a set bit of
\* word 0 into word 1.
C2_Witness ==
  /\ op = "<<="
  /\ MultiWord
  /\ args.shift > Bits_Per_Element /\ args.shift < Total_Bits
  /\ bitset_test(before, 0)
  /\ bitset_test(buffer, args.shift)

\* C3 (right shift): after v >>= k with 0 <= k < Total_Bits, on a vector that
\* satisfies I1, the vector read as an integer is floor(old value / 2^k): bit
\* p is old bit p + k when p + k < Total_Bits and 0 otherwise.
C3_ShiftRight ==
  (op = ">>=" /\ args.shift < Total_Bits /\ PaddingZero(before)) =>
    /\ AsInteger(buffer) = AsInteger(before) \div Pow2(args.shift)
    /\ \A p \in Positions :
         bitset_test(buffer, p) =
           (p + args.shift < Total_Bits /\ bitset_test(before, p + args.shift))

\* C3 witness: an unaligned shift below a word's width carried a set bit of
\* word 1 down into word 0.
C3_Witness ==
  /\ op = ">>="
  /\ MultiWord
  /\ args.shift % Bits_Per_Element # 0 /\ args.shift < Bits_Per_Element
  /\ bitset_test(before, Bits_Per_Element)
  /\ bitset_test(buffer, Bits_Per_Element - args.shift)

\* C4 (shift by Total_Bits or more): v <<= amount and v >>= amount leave the
\* vector all-zero, through reset() and without entering the engine's shift
\* routines.
C4_ShiftPastEnd ==
  (op \in {"<<=", ">>="} /\ args.shift >= Total_Bits) =>
    /\ bitset_none(buffer)
    /\ \A i \in DOMAIN buffer : buffer[i] = 0
    /\ called = {"reset"}

\* C4 witness: a vector with every bit set was shifted left by exactly
\* Total_Bits.
C4_Witness ==
  /\ op = "<<="
  /\ args.shift = Total_Bits
  /\ bitset_all(before)

\* C5 (find_next): for both values of state and every fromPosition below
\* Total_Bits, find_next(state, fromPosition) is the lowest position p with
\* fromPosition <= p < Total_Bits and test(p) = state, or npos when there is
\* none; start positions in a word other than word 0 included.
C5_FindNext ==
  op = "find_next" => result = LowestMatch(buffer, args.value, args.pos)

C7_SetResetTest ==
  /\ op = "set(pos,value)" => bitset_test(buffer, args.pos) = args.value
  /\ op = "reset(pos)" => ~bitset_test(buffer, args.pos)

\* C7 witness: set(p) has turned on a clear bit of the second word.
C7_Witness ==
  /\ op = "set(pos,value)"
  /\ args.value
  /\ args.pos >= Bits_Per_Element
  /\ ~bitset_test(before, args.pos)
  /\ bitset_test(buffer, args.pos)

\* C8 (count): in every reachable state count() is the number of positions
\* p < Total_Bits for which test(p) is true.
C8_Count == bitset_count(buffer) = Cardinality(SetPositions(buffer))

\* C8 witness: flip() on the all-zero bitset of a shape with padding left
\* exactly Total_Bits bits counted.
C8_Witness ==
  /\ op = "flip()"
  /\ HasPadding /\ MultiWord
  /\ bitset_none(before)
  /\ bitset_count(buffer) = Total_Bits

\* C9 (all / none / any): in every reachable state all() = (count() =
\* Total_Bits), none() = (count() = 0) and any() = ~none().
C9_AllNoneAny ==
  /\ bitset_all(buffer) = (bitset_count(buffer) = Total_Bits)
  /\ bitset_none(buffer) = (bitset_count(buffer) = 0)
  /\ bitset_any(buffer) = ~bitset_none(buffer)

\* C9 witness: set() with no arguments on a shape whose last word has
\* padding, after which all() is true.
C9_Witness ==
  /\ op = "set()"
  /\ HasPadding
  /\ ~bitset_all(before)
  /\ bitset_all(buffer)

\* C10 as stated (text round trip for every one/zero character pair used for
\* the export): importing the exported text yields a vector equal to the
\* exported one, whatever the destination held before.
C10_RoundTripAnyPair ==
  op = "export_import" => other = buffer

\* C10 amended (text round trip): when the export writes "1" for a set bit
\* and any other character for a clear bit, importing the exported text
\* yields a vector equal to the exported one, whatever the destination held
\* before.
C10_RoundTrip ==
  (op = "export_import" /\ args.one = "1" /\ args.zero # "1") => other = buffer

\* C10 witness: a two-word vector with set and clear bits was exported with
\* "1" / "0" and imported into a destination that held other contents.
C10_Witness ==
  /\ op = "export_import"
  /\ args.one = "1" /\ args.zero = "0"
  /\ MultiWord
  /\ bitset_any(buffer) /\ ~bitset_all(buffer)
  /\ bitset_from_value(args.num) # buffer
  /\ other = buffer

\* The first / last n characters of a text.
Prefix(text, n) == SubSeq(text, 1, n)

Suffix(text, n) == SubSeq(text, Len(text) - n + 1, Len(text))

\* C11 as stated (from text, input longer than Total_Bits): only the last
\* Total_Bits characters are consulted, the last character mapping to position
\* 0, so the vector equals the one obtained by importing the Total_Bits-
\* character suffix of the input.
C11_LongTextSuffix ==
  (op = "from_string" /\ Len(args.text) > Total_Bits) =>
    /\ \A p \in Positions :
         bitset_test(buffer, p) = (args.text[Len(args.text) - p] = "1")
    /\ buffer = bitset_from_string(before, Suffix(args.text, Total_Bits))

\* C11 amended (from text, input longer than Total_Bits): only the first
\* Total_Bits characters are consulted, the first character mapping to
\* position Total_Bits - 1 and character Total_Bits (counting from 1) to
\* position 0, so the vector equals the one obtained by importing the
\* Total_Bits-character prefix of the input.
C11_LongTextPrefix ==
  (op = "from_string" /\ Len(args.text) > Total_Bits) =>
    /\ \A p \in Positions :
         bitset_test(buffer, p) = (args.text[Total_Bits - p] = "1")
    /\ buffer = bitset_from_string(before, Prefix(args.text, Total_Bits))

\* C11 witness: a two-word vector with every bit set imported a text of more
\* than Total_Bits characters whose prefix and suffix of Total_Bits characters
\* differ; the first character, a "1", went to the highest position.
C11_Witness ==
  /\ op = "from_string"
  /\ MultiWord
  /\ Len(args.text) > Total_Bits
  /\ Prefix(args.text, Total_Bits) # Suffix(args.text, Total_Bits)
  /\ bitset_all(before)
  /\ args.text[1] = "1" /\ bitset_test(buffer, Total_Bits - 1)
  /\ args.text[Total_Bits] = "0" /\ ~bitset_test(buffer, 0)

\* C12 (from text, input of length L < Total_Bits, any prior state): position
\* L - 1 - i holds (text[i] = '1') for each i < L, and every position in
\* L .. Total_Bits - 1 is cleared.
C12_ShortText ==
  (op = "from_string" /\ Len(args.text) < Total_Bits) =>
    LET L == Len(args.text)
    IN  /\ \A i \in 0 .. L - 1 : bitset_test(buffer, L - 1 - i) = (args.text[i + 1] = "1")
        /\ \A p \in L .. Total_Bits - 1 : ~bitset_test(buffer, p)

\* C12 witness: a two-word vector with every bit set imported a text shorter
\* than one word holding a character that is not '1'; the bits of both words
\* above the text are now clear.
C12_Witness ==
  /\ op = "from_string"
  /\ MultiWord
  /\ bitset_all(before)
  /\ Len(args.text) > 1 /\ Len(args.text) < Bits_Per_Element
  /\ \E k \in 1 .. Len(args.text) : args.text[k] # "1"
  /\ bitset_test(buffer, Len(args.text) - 1)
  /\ ~bitset_test(buffer, Bits_Per_Element - 1)
  /\ ~bitset_test(buffer, Total_Bits - 1)

\* C13 (to text): the result has exactly Total_Bits characters, most-
\* significant bit first: character i is the one-character if
\* test(Total_Bits - 1 - i) is true and the zero-character otherwise; the
\* vector is not modified.
C13_ToString ==
  op = "to_string" =>
    /\ Len(result) = Total_Bits
    /\ DOMAIN result = 1 .. Total_Bits
    /\ \A i \in 0 .. Total_Bits - 1 :
         result[i + 1] = IF RawBit(buffer, Total_Bits - 1 - i) THEN args.one ELSE args.zero
    /\ buffer = before

\* C13 witness: a two-word vector whose lowest bit is set and whose highest
\* bit is clear was exported with a custom character pair: the text starts
\* with the zero-character and ends with the one-character.
C13_Witness ==
  /\ op = "to_string"
  /\ MultiWord /\ HasPadding
  /\ args.zero = "x" /\ args.one = "1"
  /\ bitset_test(buffer, 0) /\ ~bitset_test(buffer, Total_Bits - 1)
  /\ result[1] = "x" /\ result[Total_Bits] = "1"

\* C20 (flip): flip() makes test(p) the negation of its old value for every
\* p < Total_Bits while the padding bits stay 0, and a second flip() restores
\* the original vector.
C20_Flip ==
  op = "flip()" =>
    /\ \A p \in Positions : bitset_test(buffer, p) = ~bitset_test(before, p)
    /\ PaddingZero(buffer)
    /\ bitset_flip_all(buffer) = before

\* C20 witness: flip() on a two-word vector with padding that held set and
\* clear bits in both words.
C20_Witness ==
  /\ op = "flip()"
  /\ MultiWord /\ HasPadding
  /\ bitset_test(before, 0) /\ ~bitset_test(before, 1)
  /\ bitset_test(before, Total_Bits - 1) /\ ~bitset_test(before, Bits_Per_Element)
  /\ ~bitset_test(buffer, 0) /\ bitset_test(buffer, Bits_Per_Element)

\* Bit p of the integer x.
RECURSIVE BitOf(_, _)
BitOf(x, p) ==
  IF x = 0 THEN FALSE
  ELSE IF p = 0 THEN x % 2 = 1
  ELSE BitOf(x \div 2, p - 1)

\* The words read as one integer: word i weighs 2^(i * Bits_Per_Element).
RECURSIVE WordSum(_, _)
WordSum(buf, i) ==
  IF i = Number_Of_Elements THEN 0
  ELSE buf[i] * Pow2(i * Bits_Per_Element) + WordSum(buf, i + 1)

\* The shapes whose vectors fit the integers of the model.
SmallShape == Total_Bits <= MaxTotalBits

\* C14 (from integer): the vector constructed from x has test(p) = (bit p of
\* x) for every p < min(Total_Bits, 64) and false for every other position
\* below Total_Bits; bits of x at positions >= Total_Bits are discarded and
\* the padding bits are zero afterwards.
C14_FromValue ==
  op = "bitset(value)" =>
    /\ \A p \in Positions : bitset_test(buffer, p) = (p < 64 /\ BitOf(args.num, p))
    /\ PaddingZero(buffer)
    /\ SmallShape => AsInteger(buffer) = args.num % Pow2(Total_Bits)

\* C14 witness: a two-word vector with padding was constructed from a value
\* with a bit at position Total_Bits and bits in both words below it.
C14_Witness ==
  /\ op = "bitset(value)"
  /\ SmallShape /\ MultiWord /\ HasPadding
  /\ BitOf(args.num, Total_Bits)
  /\ BitOf(args.num, 0) /\ bitset_test(buffer, 0)
  /\ BitOf(args.num, Total_Bits - 1) /\ bitset_test(buffer, Total_Bits - 1)
  /\ ~RawBit(buffer, Total_Bits)

\* C15 (to integer): when the width of T is at least Number_Of_Elements *
\* Bits_Per_Element, value<T>() returns the sum of 2^p over the positions
\* p < Total_Bits with test(p) true (word i weighing 2^(i * Bits_Per_Element)),
\* so a vector constructed from x converts back to x mod 2^Total_Bits.
C15_ToValue ==
  (op = "value<T>" /\ args.width >= Allocated_Bits) =>
    /\ result.error = "none"
    /\ result.v = AsInteger(buffer)
    /\ result.v = WordSum(buffer, 0)
    /\ "initialise" \in called => result.v = args.num % Pow2(Total_Bits)

\* C15 witness: a two-word vector constructed from a value with a bit at
\* position Total_Bits was read back as a 16-bit integer with bits of both
\* words.
C15_Witness ==
  /\ op = "value<T>"
  /\ SmallShape /\ MultiWord /\ HasPadding
  /\ args.width = 16
  /\ "initialise" \in called
  /\ args.num >= Pow2(Total_Bits)
  /\ result.v > Pow2(Bits_Per_Element) /\ result.v % 2 = 1
  /\ result.v = args.num - Pow2(Total_Bits)

\* C16 (to integer, error path): the engine's value<T>() reports an error and
\* returns 0 if the width of T is below Number_Of_Elements * Bits_Per_Element
\* or if a word beyond the capacity of T is non-zero; the vector is unchanged.
C16_ToValueError ==
  (op = "value<T>"
     /\ \/ args.width < Allocated_Bits
        \/ \E i \in DOMAIN buffer : i * Bits_Per_Element >= args.width /\ buffer[i] # 0) =>
    /\ result.v = 0
    /\ result.error # "none"
    /\ buffer = before

\* C16 witness: value<T> for an 8-bit T on a two-word vector whose two words
\* are both non-zero.
C16_Witness ==
  /\ op = "value<T>"
  /\ args.width = 8
  /\ MultiWord
  /\ buffer[0] # 0 /\ buffer[1] # 0
  /\ result.v = 0 /\ result.error = "bitset_type_too_small"

\* Logical equality: the same value of test at every position.
SameBits(b1, b2) == \A p \in Positions : bitset_test(b1, p) = bitset_test(b2, p)

\* C17 (algebra of the operators): for vectors a, b, c of one shape, &, | and
\* ^ are commutative and associative, v ^ v is the all-zero vector and
\* v & (the vector set() fills) == v.
C17_Algebra ==
  op = "combine" =>
    /\ \A f \in {"and", "or", "xor"} :
         /\ bitset_equal(result[f].ab, result[f].ba)
         /\ bitset_equal(result[f].ab_c, result[f].a_bc)
    /\ bitset_equal(result.xor_aa, bitset_default)
    /\ bitset_none(result.xor_aa)
    /\ bitset_equal(result.and_ones, buffer)

\* C17 witness: three two-word vectors, pairwise different and none of them
\* all-zero or all-ones, were combined, and a & b, a | b and a ^ b differ from
\* each other and from a.
C17_Witness ==
  /\ op = "combine"
  /\ MultiWord /\ HasPadding
  /\ LET a == buffer
         b == other
         c == bitset_from_value(args.num)
     IN  /\ a # b /\ b # c /\ a # c
         /\ \A v \in {a, b, c} : bitset_any(v) /\ ~bitset_all(v)
         /\ Cardinality({a, result.and.ab, result.or.ab, result.xor.ab}) = 4
         /\ result.and.ab_c # result.and.ab

\* C18 (pointwise combination): after a &= b, a |= b or a ^= b, for every
\* position p < Total_Bits test(p) on a is (old a.test(p)) AND / OR / XOR
\* (b.test(p)), and b is the vector it was before.
C18_Pointwise ==
  /\ op = "&=" =>
       \A p \in Positions :
         bitset_test(buffer, p) = (bitset_test(before, p) /\ bitset_test(other, p))
  /\ op = "|=" =>
       \A p \in Positions :
         bitset_test(buffer, p) = (bitset_test(before, p) \/ bitset_test(other, p))
  /\ op = "^=" =>
       \A p \in Positions :
         bitset_test(buffer, p) = (bitset_test(before, p) # bitset_test(other, p))
  /\ op \in {"&=", "|=", "^="} =>
       /\ other = bitset_from_value(args.num)
       /\ \A p \in Positions : bitset_test(other, p) = BitOf(args.num, p)

\* C18 witness: a ^= b on two-word vectors where b has set bits in both words
\* and a clear bit: a bit of the second word was turned off, a bit of the
\* first word turned on, and the bit b does not hold kept its value.
C18_Witness ==
  /\ op = "^="
  /\ MultiWord
  /\ bitset_test(other, Bits_Per_Element) /\ bitset_test(other, 0) /\ ~bitset_test(other, 1)
  /\ bitset_test(before, Bits_Per_Element) /\ ~bitset_test(buffer, Bits_Per_Element)
  /\ ~bitset_test(before, 0) /\ bitset_test(buffer, 0)
  /\ bitset_test(before, 1) /\ bitset_test(buffer, 1)

\* C19 (equality): a == b holds exactly when a.test(p) = b.test(p) for every
\* p < Total_Bits, and a != b is its negation.
C19_Equality ==
  op = "==" =>
    /\ result.eq = SameBits(buffer, other)
    /\ result.ne = ~result.eq

\* C19 witness: a two-word vector with padding and every bit set (padding
\* stored as 0) compared equal to a vector of the same bits.
C19_Witness ==
  /\ op = "=="
  /\ MultiWord /\ HasPadding
  /\ bitset_all(buffer)
  /\ SameBits(buffer, other)
  /\ result.eq /\ ~result.ne

\* C21 (flip(pos) past the end): flip(pos) toggles position pos, and nothing
\* else, when pos < Total_Bits; for every pos >= Total_Bits it leaves every
\* word of the vector unchanged.
C21_FlipPosition ==
  op = "flip(pos)" =>
    IF args.pos < Total_Bits
    THEN \A q \in 0 .. Allocated_Bits - 1 :
           RawBit(buffer, q) = (RawBit(before, q) # (q = args.pos))
    ELSE /\ DOMAIN buffer = DOMAIN before
         /\ \A i \in DOMAIN buffer : buffer[i] = before[i]

\* C21 witness: flip(Total_Bits) on a two-word vector with padding and every
\* bit set: the position is a padding bit of the last word, and the words
\* are what they were.
C21_Witness ==
  /\ op = "flip(pos)"
  /\ MultiWord /\ HasPadding
  /\ args.pos = Total_Bits
  /\ bitset_all(before)
  /\ buffer = before

\* C22 (test past the end): test(pos) returns false for every pos >=
\* Total_Bits, in every reachable state, and the word it reads is a word of
\* the array.
C22_TestPastEnd ==
  (op = "test" /\ args.pos >= Total_Bits) =>
    /\ result.v = FALSE
    /\ result.index \in DOMAIN buffer

\* C26 (point operations touch only their own position): for every p <
\* Total_Bits, set(p, value), reset(p) and flip(p) leave test(q) unchanged for
\* every q < Total_Bits other than p, and every word other than word
\* p / Bits_Per_Element as it was, in one-word and two-word shapes.
C26_PointFrame ==
  (op \in {"set(pos,value)", "reset(pos)", "flip(pos)"} /\ args.pos < Total_Bits) =>
    /\ \A q \in Positions \ {args.pos} : bitset_test(buffer, q) = bitset_test(before, q)
    /\ \A i \in DOMAIN buffer : i # args.pos \div Bits_Per_Element => buffer[i] = before[i]

\* C26 witness: reset(p) of the lowest bit of the second word of a vector with
\* every bit set: the bit is clear, its neighbours in both words are set.
C26_Witness ==
  /\ op = "reset(pos)"
  /\ MultiWord /\ HasPadding
  /\ args.pos = Bits_Per_Element
  /\ bitset_all(before)
  /\ ~bitset_test(buffer, args.pos)
  /\ bitset_test(buffer, args.pos - 1) /\ bitset_test(buffer, args.pos + 1)

\* C23 (null text, error paths): in a build where a failed assertion
\* returns, set(text) with a null text reports bitset_nullptr and returns
\* with every word of the vector unchanged, and no operation that reports an
\* error (set(text), value<T>, to_string) has changed a word of the vector.
C23_ErrorPaths ==
  /\ (op = "set(const char*)" /\ args.null) =>
       /\ result.error = "bitset_nullptr"
       /\ DOMAIN buffer = DOMAIN before
       /\ \A i \in DOMAIN buffer : buffer[i] = before[i]
  /\ (op = "set(const char*)" /\ ~args.null) => result.error = "none"
  /\ (op \in {"set(const char*)", "value<T>", "to_string<TString>"} /\ result.error # "none") =>
       buffer = before

\* C23 witness: set(text) with a null text on a two-word vector with set and
\* clear bits in both words reported bitset_nullptr.
C23_Witness ==
  /\ op = "set(const char*)"
  /\ args.null
  /\ MultiWord /\ HasPadding
  /\ before[0] # 0 /\ before[1] # 0 /\ ~bitset_all(before)
  /\ result.error = "bitset_nullptr"
  /\ buffer = before

\* C24 (no bits): a vector of Total_Bits = 0 is a usable empty instance: it
\* is constructed and answers size() = 0, none() = true, all() = true and
\* count() = 0.
C24_EmptyInstance ==
  (op = "observe" /\ Total_Bits = 0) =>
    /\ result.declared
    /\ result.size = 0
    /\ result.none = TRUE
    /\ result.all = TRUE
    /\ result.count = 0

\* The word widths a target makes available.
AvailableWidths(using_8bit_types, using_64bit_types) ==
  (IF using_8bit_types THEN {8} ELSE {}) \cup {16, 32}
    \cup (IF using_64bit_types THEN {64} ELSE {})

Least(S) == CHOOSE x \in S : \A y \in S : x <= y

C25_Proxy ==
  /\ op = "[pos]=b" =>
       /\ buffer = bitset_set(before, args.pos, args.value)
       /\ RawBit(buffer, args.pos) = args.value
       /\ PaddingZero(buffer)
  /\ op = "[pos].flip()" =>
       /\ buffer = bitset_flip(before, args.pos)
       /\ RawBit(buffer, args.pos) = ~RawBit(before, args.pos)
       /\ PaddingZero(buffer)
  /\ op = "bool([pos])" =>
       /\ result = bitset_test(buffer, args.pos)
       /\ result = RawBit(buffer, args.pos)
       /\ buffer = before

\* C25 witness: v[Total_Bits - 1] = false on a vector of several words with
\* padding in which every bit was set: the highest bit is clear, the bit
\* below it still set.
C25_Witness ==
  /\ op = "[pos]=b"
  /\ MultiWord /\ HasPadding
  /\ args.pos = Total_Bits - 1 /\ ~args.value
  /\ bitset_all(before)
  /\ ~bitset_test(buffer, Total_Bits - 1)
  /\ bitset_test(buffer, Total_Bits - 2)

\* The elements of a set of numbers in increasing order.
RECURSIVE Ascending(_)
Ascending(S) ==
  IF S = {} THEN <<>>
  ELSE LET m == Least(S) IN <<m>> \o Ascending(S \ {m})

\* C27 (scan iteration): for every vector and state, the loop p =
\* find_first(state); while p != npos: visit p; p = find_next(state, p + 1)
\* ends having visited exactly the positions q < Total_Bits with test(q) =
\* state, each once, in increasing order.
C27_Scan ==
  op = "scan_done" =>
    result = Ascending({q \in Positions : bitset_test(buffer, q) = args.value})

\* Every element accessed is an element of the array.
InBounds(accesses) ==
  \A j \in 1 .. Len(accesses) : accesses[j].index \in 0 .. Number_Of_Elements - 1

\* No source element is read after an element access has stored to it.
ReadBeforeOverwrite(accesses) ==
  \A j \in 1 .. Len(accesses) :
    accesses[j].kind = "read" =>
      \A i \in 1 .. j - 1 :
        accesses[i].kind \in {"write", "update"} => accesses[i].index # accesses[j].index

\* C29 (shift index safety): for every shape of at least one word and every
\* shift with 0 <= shift < Total_Bits, every element index shift_left_equals
\* and shift_right_equals read or write (aligned block move and unaligned
\* walk alike) lies in 0 .. Number_Of_Elements - 1, and no source element is
\* overwritten before it has been read.
C29_ShiftAccesses ==
  (op \in {"<<= accesses", ">>= accesses"} /\ args.shift < Total_Bits) =>
    /\ Len(result) > 0
    /\ InBounds(result)
    /\ ReadBeforeOverwrite(result)

\* C29 witness: an unaligned left shift by more than a word on a vector of
\* more than two words: the first read is below the last element, which is
\* the first written, and element 0 is read and later cleared.
C29_Witness ==
  /\ op = "<<= accesses"
  /\ Number_Of_Elements > 2
  /\ args.shift > Bits_Per_Element /\ args.shift % Bits_Per_Element # 0
  /\ result[1].kind = "read" /\ result[1].index < Number_Of_Elements - 1
  /\ result[2] = Write(Number_Of_Elements - 1)
  /\ \E j \in 1 .. Len(result) : result[j] = Read(0)
  /\ result[Len(result)] = Write(0)

\* C28 (storage descriptor): for every Total_Bits >= 1 and element width,
\* Number_Of_Elements is Total_Bits / Bits_Per_Element rounded up,
\* 0 <= Allocated_Bits - Total_Bits < Bits_Per_Element, and Top_Mask has 1s
\* at exactly the bit positions 0 .. Total_Bits - (Number_Of_Elements - 1) *
\* Bits_Per_Element - 1 of the last element, being all ones exactly when
\* Total_Bits is a multiple of Bits_Per_Element.
C28_Descriptor ==
  op = "descriptor" =>
    LET n     == result.Number_Of_Elements
        valid == Total_Bits - (n - 1) * Bits_Per_Element
    IN  /\ (n - 1) * Bits_Per_Element < Total_Bits
        /\ Total_Bits <= n * Bits_Per_Element
        /\ result.Allocated_Bits - Total_Bits \in 0 .. Bits_Per_Element - 1
        /\ \A i \in 0 .. Bits_Per_Element - 1 :
             BitOf(result.Top_Mask, i) <=> (i < valid)
        /\ (result.Top_Mask = Pow2(Bits_Per_Element) - 1) <=> (Total_Bits % Bits_Per_Element = 0)

\* C28 witness: a vector of more than one element whose last element has
\* padding, so Top_Mask is neither all ones nor zero.
C28_Witness ==
  /\ op = "descriptor"
  /\ result.Number_Of_Elements > 1
  /\ Total_Bits % Bits_Per_Element # 0
  /\ result.Top_Mask \in 1 .. Pow2(Bits_Per_Element) - 2

====
